---- MODULE Spec2Model ----
(***************************************************************************)
(* Model of the heuristic optimisation engine of src/src/heuristic_solver.py *)
(* (class HeuristicSolver): the resource sizing, the cost evaluator, the    *)
(* constructive greedy and the four-operator local search, together with    *)
(* the constraint system of src/src/exact_solver.py.                        *)
(*                                                                         *)
(* Numbers: alpha, U_min and the efficiencies are rationals <<num, den>>;   *)
(* math.ceil of a quotient is CeilDiv.  Over the instances enumerated here  *)
(* IEEE double evaluation of the source's expressions gives the same         *)
(* ceilings as exact arithmetic.  float('inf') is the sentinel Inf and      *)
(* Python's "<" on costs is Lt.  Indices are 0-based as in the source; the  *)
(* unassigned sentinel is -1, and a negative row index of d_ij wraps as    *)
(* Python/numpy indexing does.                                             *)
(***************************************************************************)
EXTENDS Integers, Sequences, FiniteSets, TLC

VARIABLES
    data,        \* the problem instance handed to HeuristicSolver.__init__
    assignment,  \* self.assignment : site -> facility or -1
    y,           \* self.y          : facility -> 0/1
    resources,   \* self.resources  : facility -> [robot, human]
    pc,          \* position of the run: greedy, ls, head, shift, swap, drop, open, done
    gi,          \* constructive_greedy: index into sorted_J of the next site
    iteration,   \* local_search: iteration
    improving,   \* local_search: improving
    ret,         \* value returned by the last finished local_search call
    run,         \* number of local_search calls started
    obs          \* observations of the current/previous call (not program state)

vars == <<data, assignment, y, resources, pc, gi, iteration, improving, ret, run, obs>>

-----------------------------------------------------------------------------
(* Bounds of the model *)

NumI == 2
NumJ == 3
MaxIterations == 2
MaxRuns == 2

(* Program constants *)
OpenTop == 10
OpenMinSites == 2

Inf == -1
None == <<>>
Unassigned == -1

Lt(a, b) == a # Inf /\ (b = Inf \/ a < b)

\* int() in place of math.ceil
FloorDiv(a, b) == a \div b

CeilDiv(a, b) == IF a % b = 0 THEN a \div b ELSE (a \div b) + 1

-----------------------------------------------------------------------------
(* Instances.  Facilities lie on a line at FacPositions, sites at positions *)
(* drawn from SitePositions; d_ij is the distance between them.             *)

FacPositions == <<0, 4, 2>>
SitePositions == {0, 1, 4}
DemandValues == {4, 9}
FacilityTypes ==
    { [CAP |-> 6,  F |-> 1,  O |-> 1],
      [CAP |-> 10, F |-> 15, O |-> 5],
      [CAP |-> 30, F |-> 1,  O |-> 1] }

Abs(x) == IF x < 0 THEN -x ELSE x

Balanced == [alpha |-> <<1, 5>>, E_k |-> [Robot |-> <<3, 1>>, Human |-> <<1, 1>>]]

MakeData(pos, dem, ty, sc, maxit) ==
    [ num_I |-> NumI,
      num_J |-> NumJ,
      d_ij  |-> [i \in 0..(NumI-1) |-> [j \in 0..(NumJ-1) |-> Abs(FacPositions[i+1] - pos[j])]],
      D_j   |-> dem,
      F_i   |-> [i \in 0..(NumI-1) |-> ty[i].F],
      O_i   |-> [i \in 0..(NumI-1) |-> ty[i].O],
      CAP_i |-> [i \in 0..(NumI-1) |-> ty[i].CAP],
      C_k   |-> [Robot |-> 8, Human |-> 30],
      U_min |-> <<3, 10>>,
      S_max |-> 3,
      alpha |-> sc.alpha,
      E_k   |-> sc.E_k,
      max_iterations |-> maxit ]

\* data is one of the instances MakeData builds
IsInstance(d) ==
    \E pos \in [0..(NumJ-1) -> SitePositions],
       dem \in [0..(NumJ-1) -> DemandValues],
       ty  \in [0..(NumI-1) -> FacilityTypes],
       maxit \in 0..MaxIterations :
        d = MakeData(pos, dem, ty, Balanced, maxit)

I == 0..(data.num_I - 1)
J == 0..(data.num_J - 1)

-----------------------------------------------------------------------------
(* 4.1 Resource sizing *)

\* denom = E_k['Robot'] + alpha * E_k['Human'], as a rational <<num, den>>
Denom ==
    LET er == data.E_k.Robot  eh == data.E_k.Human  al == data.alpha
    IN  << er[1] * al[2] * eh[2] + al[1] * eh[1] * er[2], er[2] * al[2] * eh[2] >>

\* int(alpha * r) in place of math.ceil(alpha * r)
FloorAlpha(r) == (data.alpha[1] * r) \div data.alpha[2]

\* math.ceil(alpha * r)
CeilAlpha(r) == CeilDiv(data.alpha[1] * r, data.alpha[2])

\* math.ceil(U_min * CAP_i[facility_idx])
MinResources(facility_idx) ==
    CeilDiv(data.U_min[1] * data.CAP_i[facility_idx], data.U_min[2])

\* the pair before the utilisation correction (lines 58-59 only)
UncorrectedPair(total_demand, facility_idx) ==
    LET req_robots == CeilDiv(total_demand * Denom[2], Denom[1])
    IN  <<req_robots, CeilAlpha(req_robots)>>

\* the correction without "req_humans = math.ceil(alpha * req_robots)"
HumansNotRecomputed(total_demand, facility_idx) ==
    LET req_robots0 == CeilDiv(total_demand * Denom[2], Denom[1])
        req_humans0 == CeilAlpha(req_robots0)
        min_resources == MinResources(facility_idx)
    IN  IF req_robots0 + req_humans0 < min_resources
        THEN <<min_resources - req_humans0, req_humans0>>
        ELSE <<req_robots0, req_humans0>>

\* req_robots, req_humans after the minimum-utilisation correction
SizedPair(total_demand, facility_idx) ==
    LET req_robots0 == CeilDiv(total_demand * Denom[2], Denom[1])
        req_humans0 == CeilAlpha(req_robots0)
        min_resources == MinResources(facility_idx)
        extra_needed == min_resources - (req_robots0 + req_humans0)
    IN  IF req_robots0 + req_humans0 < min_resources
        THEN <<req_robots0 + extra_needed, CeilAlpha(req_robots0 + extra_needed)>>
        ELSE <<req_robots0, req_humans0>>

\* the sizing without the physical-capacity test
MixNoCapacityCheck(total_demand, facility_idx) ==
    IF total_demand <= 0 THEN <<0, 0>> ELSE SizedPair(total_demand, facility_idx)

calculate_resource_mix(total_demand, facility_idx) ==
    IF total_demand <= 0 THEN <<0, 0>>
    ELSE LET res == SizedPair(total_demand, facility_idx)
         IN  IF res[1] + res[2] > data.CAP_i[facility_idx] THEN None ELSE res

-----------------------------------------------------------------------------
(* 4.2 Solution state and cost evaluator; asg is the content of             *)
(* self.assignment at the time of the call.                                 *)

RECURSIVE DemandLoop(_, _, _, _)
DemandLoop(asg, facility_idx, j, total) ==
    IF j = data.num_J THEN total
    ELSE DemandLoop(asg, facility_idx, j + 1,
                    IF asg[j] = facility_idx THEN total + data.D_j[j] ELSE total)

_get_facility_demand(asg, facility_idx) == DemandLoop(asg, facility_idx, 0, 0)

RECURSIVE SitesLoop(_, _, _)
SitesLoop(asg, facility_idx, j) ==
    IF j = data.num_J THEN <<>>
    ELSE (IF asg[j] = facility_idx THEN <<j>> ELSE <<>>) \o SitesLoop(asg, facility_idx, j + 1)

_get_facility_sites(asg, facility_idx) == SitesLoop(asg, facility_idx, 0)

\* d_ij[i][j] with Python's index wrap for a negative row
Row(i) == IF i < 0 THEN data.num_I + i ELSE i
\* the distance always read from the row of facility 0
DistFirstRow(i, j) == data.d_ij[0][j]

Dist(i, j) == data.d_ij[Row(i)][j]

\* the SLA test dropped
CanServeAny(facility_idx, demand_site_idx) == TRUE

_can_serve(facility_idx, demand_site_idx) ==
    Dist(facility_idx, demand_site_idx) <= data.S_max

\* the two unit costs exchanged
ResourceCostSwapped(res) == res[1] * data.C_k.Human + res[2] * data.C_k.Robot

ResourceCost(res) == res[1] * data.C_k.Robot + res[2] * data.C_k.Human

RECURSIVE CostLoop(_, _, _)
CostLoop(asg, i, total_cost) ==
    IF i = data.num_I THEN total_cost
    ELSE LET d == _get_facility_demand(asg, i)
             res == calculate_resource_mix(d, i)
         IN  IF d > 0
             THEN IF res = None THEN Inf
                  ELSE CostLoop(asg, i + 1,
                                total_cost + data.F_i[i] + data.O_i[i] + ResourceCost(res))
             ELSE CostLoop(asg, i + 1, total_cost)

\* the early return for an unassigned site left out
TotalCostSkipUnassigned(asg) == CostLoop(asg, 0, 0)

calculate_total_cost(asg) ==
    IF \E j \in J : asg[j] = Unassigned THEN Inf ELSE CostLoop(asg, 0, 0)

\* y is only ever raised
UpdatedYNoClose(asg) == [i \in I |-> IF _get_facility_demand(asg, i) > 0 THEN 1 ELSE y[i]]

\* _update_facility_state: the new y and resources for assignment asg
UpdatedY(asg) == [i \in I |-> IF _get_facility_demand(asg, i) > 0 THEN 1 ELSE 0]

\* the resources left as they were
StaleResources(asg, old) == old

UpdatedResources(asg, old) ==
    [i \in I |->
        LET d == _get_facility_demand(asg, i)
            res == calculate_resource_mix(d, i)
        IN  IF d > 0
            THEN IF res # None THEN [robot |-> res[1], human |-> res[2]] ELSE old[i]
            ELSE [robot |-> 0, human |-> 0]]

-----------------------------------------------------------------------------
(* 4.3 Constructive greedy *)

\* np.argsort(D_j): ascending, equal demands in index order
RECURSIVE InsertAsc(_, _)
InsertAsc(s, j) ==
    IF s = <<>> THEN <<j>>
    ELSE IF data.D_j[Head(s)] <= data.D_j[j] THEN <<Head(s)>> \o InsertAsc(Tail(s), j)
         ELSE <<j>> \o s

RECURSIVE ArgsortLoop(_, _)
ArgsortLoop(s, j) == IF j = data.num_J THEN s ELSE ArgsortLoop(InsertAsc(s, j), j + 1)

\* the "[::-1]" left out
NoReverse(s) == s

Reverse(s) == [k \in 1..Len(s) |-> s[Len(s) + 1 - k]]

sorted_J == Reverse(ArgsortLoop(<<>>, 0))

\* the loop over valid_candidates of one site j: <<best_i, min_marginal_cost>>
RECURSIVE CandidateLoop(_, _, _, _)
CandidateLoop(j, i, best_i, min_marginal_cost) ==
    IF i = data.num_I THEN best_i
    ELSE IF ~_can_serve(i, j) THEN CandidateLoop(j, i + 1, best_i, min_marginal_cost)
    ELSE LET new_demand == _get_facility_demand(assignment, i) + data.D_j[j]
             res == calculate_resource_mix(new_demand, i)
             cost_new == ResourceCost(res)
                         + (IF y[i] = 0 THEN data.F_i[i] + data.O_i[i] ELSE 0)
         IN  IF res = None THEN CandidateLoop(j, i + 1, best_i, min_marginal_cost)
             ELSE IF Lt(cost_new, min_marginal_cost)
                  THEN CandidateLoop(j, i + 1, i, cost_new)
                  ELSE CandidateLoop(j, i + 1, best_i, min_marginal_cost)

\* min_marginal_cost started at 0 in place of float('inf')
GreedyBestZeroStart(j) == CandidateLoop(j, 0, -1, 0)

GreedyBest(j) == CandidateLoop(j, 0, -1, Inf)

-----------------------------------------------------------------------------
(* 4.4 Local search operators.  Each returns [found, asg]: the value the    *)
(* method returns and the content of self.assignment when it returns        *)
(* (before _update_facility_state is applied on a commit).                  *)

Result(found, asg) == [found |-> found, asg |-> asg]

\* acceptance with "<=" in place of "<"
NotWorse(new_cost, current_cost) == new_cost # Inf /\ (current_cost = Inf \/ new_cost <= current_cost)

\* "if new_cost < current_cost"
Improves(new_cost, current_cost) == Lt(new_cost, current_cost)

\* _shift_move
\* the else branch "self.assignment[j] = original_i" left out
ShiftNoRevert(asg, j, original_i) == asg

ShiftRevert(asg, j, original_i) == [asg EXCEPT ![j] = original_i]

RECURSIVE ShiftLoop(_, _, _, _, _)
ShiftLoop(asg, current_cost, j, original_i, k) ==
    IF j = data.num_J THEN Result(FALSE, asg)
    ELSE IF k = data.num_I
         THEN ShiftLoop(asg, current_cost, j + 1,
                        IF j + 1 < data.num_J THEN asg[j + 1] ELSE Unassigned, 0)
    ELSE IF k = original_i \/ ~_can_serve(k, j)
         THEN ShiftLoop(asg, current_cost, j, original_i, k + 1)
    ELSE LET t == [asg EXCEPT ![j] = k]
             new_cost == calculate_total_cost(t)
         IN  IF Improves(new_cost, current_cost)
             THEN Result(TRUE, t)
             ELSE ShiftLoop(ShiftRevert(t, j, original_i), current_cost, j, original_i, k + 1)

\* the enumeration started at the second site
ShiftFromSecondSite(asg) == ShiftLoop(asg, calculate_total_cost(asg), 1, asg[1], 0)

_shift_move(asg) == ShiftLoop(asg, calculate_total_cost(asg), 0, asg[0], 0)

\* _swap_move
\* only the first of the two sites put back
SwapRevertFirstOnly(asg, j1, i1, j2, i2) == [asg EXCEPT ![j1] = i1]

SwapRevert(asg, j1, i1, j2, i2) == [asg EXCEPT ![j1] = i1, ![j2] = i2]

\* the loop "for j2 in range(j1 + 1, self.num_J)" for one j1
RECURSIVE SwapInner(_, _, _, _, _)
SwapInner(asg, current_cost, j1, i1, j2) ==
    IF j2 >= data.num_J THEN Result(FALSE, asg)
    ELSE LET i2 == asg[j2]
         IN  IF i1 = i2
             THEN SwapInner(asg, current_cost, j1, i1, j2 + 1)
             ELSE IF ~_can_serve(i2, j1) \/ ~_can_serve(i1, j2)
             THEN SwapInner(asg, current_cost, j1, i1, j2 + 1)
             ELSE LET t == [asg EXCEPT ![j1] = i2, ![j2] = i1]
                      new_cost == calculate_total_cost(t)
                  IN  IF Improves(new_cost, current_cost)
                      THEN Result(TRUE, t)
                      ELSE SwapInner(SwapRevert(t, j1, i1, j2, i2), current_cost, j1, i1, j2 + 1)

\* the loop "for j1 in range(self.num_J)"
RECURSIVE SwapLoop(_, _, _)
SwapLoop(asg, current_cost, j1) ==
    IF j1 = data.num_J THEN Result(FALSE, asg)
    ELSE LET r == SwapInner(asg, current_cost, j1, asg[j1], j1 + 1)
         IN  IF r.found THEN r ELSE SwapLoop(r.asg, current_cost, j1 + 1)

\* _swap_move that looks at no pair
SwapNothing(asg) == Result(FALSE, asg)

_swap_move(asg) == SwapLoop(asg, calculate_total_cost(asg), 0)

\* _drop_move
\* open_facilities: the open facilities in index order, then list.sort (stable) by demand
RECURSIVE InsertByDemand(_, _, _)
InsertByDemand(asg, s, i) ==
    IF s = <<>> THEN <<i>>
    ELSE IF _get_facility_demand(asg, Head(s)) <= _get_facility_demand(asg, i)
         THEN <<Head(s)>> \o InsertByDemand(asg, Tail(s), i)
         ELSE <<i>> \o s

RECURSIVE OpenFacilitiesLoop(_, _, _, _)
OpenFacilitiesLoop(asg, yy, s, i) ==
    IF i = data.num_I THEN s
    ELSE OpenFacilitiesLoop(asg, yy, IF yy[i] = 1 THEN InsertByDemand(asg, s, i) ELSE s, i + 1)

\* the filter "if self.y[i] == 1" left out: every facility is a candidate
AllFacilities(asg, yy) == OpenFacilitiesLoop(asg, [i \in I |-> 1], <<>>, 0)

open_facilities(asg, yy) == OpenFacilitiesLoop(asg, yy, <<>>, 0)

\* the loop "for alt_i in open_facilities" for one site j; best is
\* <<best_alt, min_increase>> (min_increase is float('inf') exactly while
\* best_alt = -1)
Increase(res, res_old) ==
    LET old == IF res_old # None THEN res_old ELSE <<0, 0>>
    IN  (res[1] - old[1]) * data.C_k.Robot + (res[2] - old[2]) * data.C_k.Human

AltChoose(alt_i, res, increase, best) ==
    IF res = None THEN best
    ELSE IF best[1] = -1 \/ increase < best[2] THEN <<alt_i, increase>> ELSE best

AltCandidate(alt_i, j, current_alt_demand, res, best) ==
    AltChoose(alt_i, res,
              Increase(res, calculate_resource_mix(current_alt_demand, alt_i)), best)

AltBody(asg, drop_i, j, alt_i, current_alt_demand, best) ==
    IF alt_i = drop_i \/ ~_can_serve(alt_i, j) THEN best
    ELSE AltCandidate(alt_i, j, current_alt_demand,
                      calculate_resource_mix(current_alt_demand + data.D_j[j], alt_i), best)

RECURSIVE AltLoop(_, _, _, _, _, _)
AltLoop(asg, of, drop_i, j, p, best) ==
    IF p > Len(of) THEN best[1]
    ELSE AltLoop(asg, of, drop_i, j, p + 1,
                 AltBody(asg, drop_i, j, of[p], _get_facility_demand(asg, of[p]), best))

\* the loop "for j in sites_at_i": [ok |-> redistribution_possible, asg]
RECURSIVE RedistLoop(_, _, _, _, _)
RedistLoop(asg, of, drop_i, sites_at_i, p) ==
    IF p > Len(sites_at_i) THEN [ok |-> TRUE, asg |-> asg]
    ELSE LET j == sites_at_i[p]
             best_alt == AltLoop(asg, of, drop_i, j, 1, <<-1, 0>>)
         IN  IF best_alt = -1
             THEN [ok |-> FALSE, asg |-> asg]
             ELSE RedistLoop([asg EXCEPT ![j] = best_alt], of, drop_i, sites_at_i, p + 1)

\* the revert loop left out
NoRestore(asg, original_assignments) == asg

\* "for j, orig_i in original_assignments.items(): self.assignment[j] = orig_i"
RestoreOriginal(asg, original_assignments) ==
    [j \in J |-> IF j \in DOMAIN original_assignments
                 THEN original_assignments[j] ELSE asg[j]]

SeqSet(s) == {s[k] : k \in 1..Len(s)}

RECURSIVE DropLoop(_, _, _, _)
DropLoop(asg, current_cost, of, idx) ==
    IF idx > Len(of) THEN Result(FALSE, asg)
    ELSE LET drop_i == of[idx]
             sites_at_i == _get_facility_sites(asg, drop_i)
             original_assignments == [j \in SeqSet(sites_at_i) |-> asg[j]]
             r == RedistLoop(asg, of, drop_i, sites_at_i, 1)
             new_cost == calculate_total_cost(r.asg)
         IN  IF sites_at_i = <<>>
             THEN DropLoop(asg, current_cost, of, idx + 1)
             ELSE IF r.ok /\ Improves(new_cost, current_cost)
             THEN Result(TRUE, r.asg)
             ELSE DropLoop(RestoreOriginal(r.asg, original_assignments),
                           current_cost, of, idx + 1)

\* open_facilities left in index order (the sort by demand left out)
DropInIndexOrder(asg, yy) ==
    DropLoop(asg, calculate_total_cost(asg),
             SelectSeq([k \in 1..data.num_I |-> k - 1], LAMBDA i : yy[i] = 1), 1)

_drop_move(asg, yy) == DropLoop(asg, calculate_total_cost(asg), open_facilities(asg, yy), 1)

\* _open_move
RECURSIVE ClosedLoop(_, _)
ClosedLoop(yy, i) ==
    IF i = data.num_I THEN <<>>
    ELSE (IF yy[i] = 0 THEN <<i>> ELSE <<>>) \o ClosedLoop(yy, i + 1)

closed_facilities(yy) == ClosedLoop(yy, 0)

\* site_savings before sorting: <<j, current_dist - new_dist>> in site order
RECURSIVE SavingsLoop(_, _, _)
SavingsLoop(asg, new_i, j) ==
    IF j = data.num_J THEN <<>>
    ELSE LET current_i == asg[j]
             current_dist == Dist(current_i, j)
             new_dist == Dist(new_i, j)
         IN  (IF _can_serve(new_i, j) /\ new_dist < current_dist
              THEN << <<j, current_dist - new_dist>> >> ELSE <<>>)
             \o SavingsLoop(asg, new_i, j + 1)

\* list.sort(key = saving, reverse = True): stable, largest saving first
RECURSIVE InsertDesc(_, _)
InsertDesc(s, e) ==
    IF s = <<>> THEN <<e>>
    ELSE IF Head(s)[2] >= e[2] THEN <<Head(s)>> \o InsertDesc(Tail(s), e)
         ELSE <<e>> \o s

RECURSIVE SortDesc(_, _, _)
SortDesc(s, acc, p) == IF p > Len(s) THEN acc ELSE SortDesc(s, InsertDesc(acc, s[p]), p + 1)

site_savings(asg, new_i) == SortDesc(SavingsLoop(asg, new_i, 0), <<>>, 1)

\* site_savings[:10]
\* the slice "[:10]" left out: every candidate site is moved
TopSitesAll(ss) == {ss[p][1] : p \in 1..Len(ss)}

TopSites(ss) == {ss[p][1] : p \in 1..(IF Len(ss) < OpenTop THEN Len(ss) ELSE OpenTop)}

RECURSIVE OpenLoop(_, _, _, _)
OpenLoop(asg, current_cost, closed, idx) ==
    IF idx > Len(closed) THEN Result(FALSE, asg)
    ELSE LET new_i == closed[idx]
             ss == site_savings(asg, new_i)
             moved == TopSites(ss)
             original_assignments == [j \in moved |-> asg[j]]
             t == [j \in J |-> IF j \in moved THEN new_i ELSE asg[j]]
             new_cost == calculate_total_cost(t)
         IN  IF Len(ss) >= OpenMinSites
             THEN IF Improves(new_cost, current_cost)
                  THEN Result(TRUE, t)
                  ELSE OpenLoop(RestoreOriginal(t, original_assignments),
                                current_cost, closed, idx + 1)
             ELSE OpenLoop(asg, current_cost, closed, idx + 1)

_open_move(asg, yy) == OpenLoop(asg, calculate_total_cost(asg), closed_facilities(yy), 1)

-----------------------------------------------------------------------------
NoObs == [moves |-> 0, cost0 |-> Inf, entry |-> <<>>, prevRet |-> Inf,
          prevStop |-> "none", prevMoves |-> 0, stop |-> "none", last |-> "none"]

\* the solution state __init__ builds
StartState ==
    /\ assignment = [j \in 0..(NumJ-1) |-> Unassigned]
    /\ y = [i \in 0..(NumI-1) |-> 0]
    /\ resources = [i \in 0..(NumI-1) |-> [robot |-> 0, human |-> 0]]
    /\ pc = "greedy"
    /\ gi = 1
    /\ iteration = 0
    /\ improving = TRUE
    /\ ret = Inf
    /\ run = 0
    /\ obs = NoObs

Init == IsInstance(data) /\ StartState

\* the instances with a small facility at the even and a large one at the odd indices
AlternatingTypes ==
    [i \in 0..(NumI-1) |-> IF i % 2 = 0 THEN [CAP |-> 6,  F |-> 1, O |-> 1]
                                        ELSE [CAP |-> 30, F |-> 1, O |-> 1]]

LiveInit ==
    /\ \E pos \in [0..(NumJ-1) -> SitePositions],
          dem \in [0..(NumJ-1) -> DemandValues],
          maxit \in 0..MaxIterations :
            data = MakeData(pos, dem, AlternatingTypes, Balanced, maxit)
    /\ StartState

\* one pass of the body of the loop "for j in sorted_J" of constructive_greedy:
\* the assignment, y and resources it leaves
GreedyAssignment ==
    LET j == sorted_J[gi]
        best_i == GreedyBest(j)
    IN  IF best_i # -1 THEN [assignment EXCEPT ![j] = best_i] ELSE assignment

\* the chosen facility marked open and every other facility marked closed
GreedyYOnlyBest ==
    LET best_i == GreedyBest(sorted_J[gi])
    IN  IF best_i # -1 THEN [i \in I |-> IF i = best_i THEN 1 ELSE 0] ELSE y

GreedyY ==
    LET best_i == GreedyBest(sorted_J[gi])
    IN  IF best_i # -1 THEN [y EXCEPT ![best_i] = 1] ELSE y

GreedyResources ==
    LET best_i == GreedyBest(sorted_J[gi])
        res == calculate_resource_mix(_get_facility_demand(GreedyAssignment, best_i), best_i)
    IN  IF best_i # -1 /\ res # None
        THEN [resources EXCEPT ![best_i] = [robot |-> res[1], human |-> res[2]]]
        ELSE resources

GreedyStep ==
    /\ pc = "greedy"
    /\ gi <= data.num_J
    /\ assignment' = GreedyAssignment
    /\ y' = GreedyY
    /\ resources' = GreedyResources
    /\ gi' = gi + 1
    /\ pc' = IF gi = data.num_J THEN "ls" ELSE "greedy"
    /\ UNCHANGED <<data, iteration, improving, ret, run, obs>>

\* main.py calls local_search() after constructive_greedy(); a caller may call it
\* again on the state it left.
LsEnter ==
    /\ pc = "ls"
    /\ iteration' = 0
    /\ improving' = TRUE
    /\ run' = run + 1
    /\ pc' = "head"
    /\ obs' = [moves |-> 0,
               cost0 |-> calculate_total_cost(assignment),
               entry |-> <<assignment, y, resources>>,
               prevRet |-> ret,
               prevStop |-> obs.stop,
               prevMoves |-> obs.moves,
               stop |-> "running",
               last |-> "none"]
    /\ UNCHANGED <<data, assignment, y, resources, gi, ret>>

\* the test of "while improving and iteration < self.max_iterations", then either
\* the first two statements of the body or the statements after the loop
WhileNoCap == improving

WhileCond == improving /\ iteration < data.max_iterations

LsHead ==
    /\ pc = "head"
    /\ improving' = IF WhileCond THEN FALSE ELSE improving
    /\ iteration' = IF WhileCond THEN iteration + 1 ELSE iteration
    /\ pc' = IF WhileCond THEN "shift" ELSE "done"
    /\ ret' = IF WhileCond THEN ret ELSE calculate_total_cost(assignment)
    /\ obs' = IF WhileCond THEN obs
              ELSE [obs EXCEPT !.stop = IF improving THEN "cap" ELSE "noimprove"]
    /\ UNCHANGED <<data, assignment, y, resources, gi, run>>

\* "if self._xxx_move(): improving = True; continue", else fall through to nxt;
\* r is what the operator returned and left in self.assignment
TryMove(r, name, nxt) ==
    /\ assignment' = r.asg
    /\ y' = IF r.found THEN UpdatedY(r.asg) ELSE y
    /\ resources' = IF r.found THEN UpdatedResources(r.asg, resources) ELSE resources
    /\ improving' = IF r.found THEN TRUE ELSE improving
    /\ pc' = IF r.found THEN "head" ELSE nxt
    /\ obs' = IF r.found THEN [obs EXCEPT !.moves = @ + 1, !.last = name]
                         ELSE [obs EXCEPT !.last = "none"]
    /\ UNCHANGED <<data, gi, iteration, ret, run>>

\* Swap skipped after a failed Shift
ShiftThenDrop == pc = "shift" /\ TryMove(_shift_move(assignment), "shift", "drop")

Shift == pc = "shift" /\ TryMove(_shift_move(assignment), "shift", "swap")

Swap == pc = "swap" /\ TryMove(_swap_move(assignment), "swap", "drop")

Drop == pc = "drop" /\ TryMove(_drop_move(assignment, y), "drop", "open")

Open == pc = "open" /\ TryMove(_open_move(assignment, y), "open", "head")

CallAgain ==
    /\ pc = "done"
    /\ run < MaxRuns
    /\ pc' = "ls"
    /\ UNCHANGED <<data, assignment, y, resources, gi, iteration, improving, ret, run, obs>>

Next == GreedyStep \/ LsEnter \/ LsHead \/ Shift \/ Swap \/ Drop \/ Open \/ CallAgain

Spec == Init /\ [][Next]_vars

-----------------------------------------------------------------------------
(* The MIP of solve_exact.  x is given by the function asg (x[i,j] = 1 iff   *)
(* asg[j] = i), so DemandSat is "asg maps every site to a facility"; z_robot *)
(* and z_human are non-negative integers.                                    *)

\* ServCap, PhysCap, Supervision and MinUtil of facility i for load, y_i, z_robot, z_human
FacilityFeasible(i, load, yi, zr, zh) ==
    /\ load * data.E_k.Robot[2] * data.E_k.Human[2]
         <= data.E_k.Robot[1] * data.E_k.Human[2] * zr
            + data.E_k.Human[1] * data.E_k.Robot[2] * zh
    /\ zr + zh <= data.CAP_i[i] * yi
    /\ zh * data.alpha[2] >= data.alpha[1] * zr
    /\ (zr + zh) * data.U_min[2] >= data.U_min[1] * data.CAP_i[i] * yi

\* DemandSat, SLA and Logical
AssignmentFeasible(asg, yy) ==
    /\ \A j \in J : asg[j] \in I
    /\ \A j \in J : data.d_ij[asg[j]][j] <= data.S_max
    /\ \A j \in J : yy[asg[j]] = 1

ExactFeasible(asg, yy, zr, zh) ==
    /\ AssignmentFeasible(asg, yy)
    /\ \A i \in I : FacilityFeasible(i, _get_facility_demand(asg, i), yy[i], zr[i], zh[i])

RECURSIVE SumOver(_, _)
SumOver(f, i) == IF i = data.num_I THEN 0 ELSE f[i] + SumOver(f, i + 1)

ExactObjective(yy, zr, zh) ==
    SumOver([i \in I |-> (data.F_i[i] + data.O_i[i]) * yy[i]
                         + data.C_k.Robot * zr[i] + data.C_k.Human * zh[i]], 0)

\* the objective values facility i can contribute for load and y_i
FacilityCosts(i, load, yi) ==
    { (data.F_i[i] + data.O_i[i]) * yi + data.C_k.Robot * zr + data.C_k.Human * zh :
        <<zr, zh>> \in { p \in (0..(data.CAP_i[i] * yi)) \X (0..(data.CAP_i[i] * yi)) :
                          FacilityFeasible(i, load, yi, p[1], p[2]) } }

SetMin(S) == CHOOSE m \in S : \A n \in S : m <= n

\* model.objVal when model.status is OPTIMAL, Inf when the model has no feasible point
ExactOptimum ==
    LET loads == { _get_facility_demand(asg, i) : asg \in [J -> I], i \in I }
        best == [i \in I |-> [yi \in {0, 1} |-> [load \in loads |->
                    LET cs == FacilityCosts(i, load, yi)
                    IN  IF cs = {} THEN Inf ELSE SetMin(cs)]]]
        points == { q \in [J -> I] \X [I -> {0, 1}] :
                      /\ AssignmentFeasible(q[1], q[2])
                      /\ \A i \in I : best[i][q[2][i]][_get_facility_demand(q[1], i)] # Inf }
        totals == { SumOver([i \in I |-> best[i][q[2][i]][_get_facility_demand(q[1], i)]], 0) :
                      q \in points }
    IN  IF totals = {} THEN Inf ELSE SetMin(totals)

-----------------------------------------------------------------------------
(* The program is sequential: a statement that can run does run.  That is    *)
(* weak fairness of Next.  Every action changes pc or run, and Next has a    *)
(* step in every reachable state but the one after the last call returned,   *)
(* so ENABLED <<Next>>_vars is ~Terminal there and WF_vars(Next), which is   *)
(* []<>~ENABLED <<Next>>_vars \/ []<><<Next>>_vars, is written out with it.   *)

\* the state after the last call has returned: the only state without a next step
Terminal == pc = "done" /\ run >= MaxRuns

Fairness == []<>Terminal \/ []<><<Next>>_vars

LiveSpec == LiveInit /\ [][Next]_vars /\ Fairness

-----------------------------------------------------------------------------
(* Instances with a site out of the SLA radius of every facility: one site   *)
(* at least lies at FarPosition, further than S_max from every entry of      *)
(* FacPositions.                                                             *)

FarPosition == 8

FarInit ==
    /\ \E pos \in [0..(NumJ-1) -> SitePositions \cup {FarPosition}],
          dem \in [0..(NumJ-1) -> DemandValues],
          ty  \in [0..(NumI-1) -> FacilityTypes],
          maxit \in 0..MaxIterations :
            /\ \E j \in 0..(NumJ-1) : pos[j] = FarPosition
            /\ data = MakeData(pos, dem, ty, Balanced, maxit)
    /\ StartState

FarSpec == FarInit /\ [][Next]_vars

-----------------------------------------------------------------------------
(* The two evaluators called on their own: calculate_resource_mix for a      *)
(* demand of 0..MaxDemand at a facility, calculate_total_cost for any        *)
(* content of self.assignment.  obs holds the arguments and the value        *)
(* returned.                                                                 *)

MaxDemand == 60

EvalTypes == FacilityTypes \cup { [CAP |-> 100, F |-> 1, O |-> 1] }

EvalInit ==
    /\ \E dem \in [0..(NumJ-1) -> DemandValues],
          ty  \in [0..(NumI-1) -> EvalTypes] :
            data = MakeData([j \in 0..(NumJ-1) |-> 0], dem, ty, Balanced, 0)
    /\ StartState

SizingCall ==
    /\ pc = "greedy"
    /\ \E total_demand \in 0..MaxDemand, facility_idx \in I :
          obs' = [total_demand |-> total_demand,
                  facility_idx |-> facility_idx,
                  res |-> calculate_resource_mix(total_demand, facility_idx)]
    /\ pc' = "sized"
    /\ UNCHANGED <<data, assignment, y, resources, gi, iteration, improving, ret, run>>

CostCall ==
    /\ pc = "greedy"
    /\ \E asg \in [J -> I \cup {Unassigned}] :
          obs' = [asg |-> asg, cost |-> calculate_total_cost(asg)]
    /\ pc' = "costed"
    /\ UNCHANGED <<data, assignment, y, resources, gi, iteration, improving, ret, run>>

EvalNext == SizingCall \/ CostCall

EvalSpec == EvalInit /\ [][EvalNext]_vars

-----------------------------------------------------------------------------
(* Instances with one site more than NumJ, every site within S_max of every *)
(* facility: the runs in which Drop has a choice between facilities.        *)

WideJ == 4
WidePositions == {1, 2}
WideDemands == {2, 4}

WideData(pos, dem, ty, maxit) ==
    [ MakeData(pos, dem, ty, Balanced, maxit) EXCEPT
        !.num_J = WideJ,
        !.d_ij  = [i \in 0..(NumI-1) |-> [j \in 0..(WideJ-1) |-> Abs(FacPositions[i+1] - pos[j])]] ]

WideInit ==
    /\ \E pos \in [0..(WideJ-1) -> WidePositions],
          dem \in [0..(WideJ-1) -> WideDemands],
          ty  \in [0..(NumI-1) -> FacilityTypes],
          maxit \in 0..MaxIterations :
            data = WideData(pos, dem, ty, maxit)
    /\ assignment = [j \in 0..(WideJ-1) |-> Unassigned]
    /\ y = [i \in 0..(NumI-1) |-> 0]
    /\ resources = [i \in 0..(NumI-1) |-> [robot |-> 0, human |-> 0]]
    /\ pc = "greedy"
    /\ gi = 1
    /\ iteration = 0
    /\ improving = TRUE
    /\ ret = Inf
    /\ run = 0
    /\ obs = NoObs

WideSpec == WideInit /\ [][Next]_vars

-----------------------------------------------------------------------------
(* Instances with three facilities and more sites than Open relocates at    *)
(* once: the runs in which the cut "site_savings[:10]" leaves candidates    *)
(* behind.  Positions and demands repeat along the site index.              *)

ClusterJ == 12
ClusterFacPositions == <<0, 5, 2>>
ClusterPositionPatterns == {2, 3} \X {2, 3}
ClusterDemandPatterns == {2, 4} \X {2, 4} \X {2, 4}
DefaultMaxIterations == 100

ClusterData(pp, dp, ty) ==
    [ num_I |-> Len(ClusterFacPositions),
      num_J |-> ClusterJ,
      d_ij  |-> [i \in 0..(Len(ClusterFacPositions)-1) |->
                   [j \in 0..(ClusterJ-1) |->
                      Abs(ClusterFacPositions[i+1] - pp[(j % Len(pp)) + 1])]],
      D_j   |-> [j \in 0..(ClusterJ-1) |-> dp[(j % Len(dp)) + 1]],
      F_i   |-> [i \in 0..(Len(ClusterFacPositions)-1) |-> ty[i].F],
      O_i   |-> [i \in 0..(Len(ClusterFacPositions)-1) |-> ty[i].O],
      CAP_i |-> [i \in 0..(Len(ClusterFacPositions)-1) |-> ty[i].CAP],
      C_k   |-> [Robot |-> 8, Human |-> 30],
      U_min |-> <<3, 10>>,
      S_max |-> 3,
      alpha |-> Balanced.alpha,
      E_k   |-> Balanced.E_k,
      max_iterations |-> DefaultMaxIterations ]

ClusterInit ==
    /\ \E pp \in ClusterPositionPatterns,
          dp \in ClusterDemandPatterns,
          ty \in [0..(Len(ClusterFacPositions)-1) -> FacilityTypes] :
            data = ClusterData(pp, dp, ty)
    /\ assignment = [j \in 0..(ClusterJ-1) |-> Unassigned]
    /\ y = [i \in 0..(Len(ClusterFacPositions)-1) |-> 0]
    /\ resources = [i \in 0..(Len(ClusterFacPositions)-1) |-> [robot |-> 0, human |-> 0]]
    /\ pc = "greedy"
    /\ gi = 1
    /\ iteration = 0
    /\ improving = TRUE
    /\ ret = Inf
    /\ run = 0
    /\ obs = NoObs

ClusterSpec == ClusterInit /\ [][Next]_vars

-----------------------------------------------------------------------------
(* Instances with a site whose demand alone exceeds the capacity of the     *)
(* small facilities: greedy leaves it unassigned although it is within      *)
(* S_max of a facility.                                                     *)

HeavyDemand == 30

HeavyInit ==
    /\ \E pos \in [0..(NumJ-1) -> SitePositions],
          dem \in [0..(NumJ-1) -> DemandValues \cup {HeavyDemand}],
          ty  \in [0..(NumI-1) -> FacilityTypes],
          maxit \in 0..MaxIterations :
            /\ \E j \in 0..(NumJ-1) : dem[j] = HeavyDemand
            /\ data = MakeData(pos, dem, ty, Balanced, maxit)
    /\ StartState

HeavySpec == HeavyInit /\ [][Next]_vars

-----------------------------------------------------------------------------
(* Instances with a facility at every position of FacPositions and the     *)
(* default iteration cap: the runs in which a move can empty one facility   *)
(* while it opens another.                                                  *)

TriData(pos, dem, ty) ==
    [ MakeData(pos, dem, ty, Balanced, DefaultMaxIterations) EXCEPT
        !.num_I = Len(FacPositions),
        !.d_ij  = [i \in 0..(Len(FacPositions)-1) |->
                     [j \in 0..(NumJ-1) |-> Abs(FacPositions[i+1] - pos[j])]],
        !.F_i   = [i \in 0..(Len(FacPositions)-1) |-> ty[i].F],
        !.O_i   = [i \in 0..(Len(FacPositions)-1) |-> ty[i].O],
        !.CAP_i = [i \in 0..(Len(FacPositions)-1) |-> ty[i].CAP] ]

TriInit ==
    /\ \E pos \in [0..(NumJ-1) -> SitePositions],
          dem \in [0..(NumJ-1) -> DemandValues],
          ty  \in [0..(Len(FacPositions)-1) -> FacilityTypes] :
            data = TriData(pos, dem, ty)
    /\ assignment = [j \in 0..(NumJ-1) |-> Unassigned]
    /\ y = [i \in 0..(Len(FacPositions)-1) |-> 0]
    /\ resources = [i \in 0..(Len(FacPositions)-1) |-> [robot |-> 0, human |-> 0]]
    /\ pc = "greedy"
    /\ gi = 1
    /\ iteration = 0
    /\ improving = TRUE
    /\ ret = Inf
    /\ run = 0
    /\ obs = NoObs

TriSpec == TriInit /\ [][Next]_vars

-----------------------------------------------------------------------------
(* Properties *)

Cost == calculate_total_cost(assignment)
MovePcs == {"shift", "swap", "drop", "open"}
AllAssigned == \A j \in J : assignment[j] \in I
Finite(c) == c # Inf
StrictlyLower(a, b) == IF a = Inf THEN FALSE ELSE IF b = Inf THEN TRUE ELSE a < b
Load(i) == _get_facility_demand(assignment, i)
SitesOf(i) == {j \in J : assignment[j] = i}
JustCommitted(name) == pc = "head" /\ obs.last = name

\* C1: a move operator that returns True leaves every site assigned and a finite
\* total cost; a move step that leaves the assignment changed is such a commit
\* and its cost is strictly below the cost before the call (nothing tentative
\* is left in place).
C1_Step ==
    pc \in MovePcs =>
        /\ (improving' => AllAssigned' /\ Finite(Cost'))
        /\ (assignment' # assignment =>
              improving' /\ Finite(Cost') /\ StrictlyLower(Cost', Cost))

C1_CommitFeasible == [][C1_Step]_vars

C1_Witness == JustCommitted("open") /\ AllAssigned /\ Finite(Cost)

\* C2: every assigned pair (facility i, site j) has d_ij[i][j] <= S_max, in every
\* state the greedy or a local-search operator leaves.
C2_SLA ==
    \A j \in J : assignment[j] # Unassigned =>
        data.d_ij[assignment[j]][j] <= data.S_max

C2_Witness == JustCommitted("swap") /\ \A j \in J : assignment[j] # Unassigned

\* C3: every commit strictly lowers the total cost, the cost does not change
\* between commits of a local_search call, and the value local_search returns
\* is not above the cost of the state the call started from.
C3_Step ==
    /\ (pc \in MovePcs /\ improving' => StrictlyLower(Cost', Cost))
    /\ (pc \in (MovePcs \cup {"head"}) /\ ~improving' => Cost' = Cost)
    /\ (pc = "head" /\ pc' = "done" =>
          ret' = Cost /\ ~StrictlyLower(obs.cost0, ret'))

C3_Monotone == [][C3_Step]_vars

C3_Witness == pc = "head" /\ obs.moves = 2 /\ StrictlyLower(Cost, obs.cost0)

\* C4: for every facility with assigned sites the sizing of its load is feasible:
\* the stored robots + humans <= CAP_i and E_robot*robots + E_human*humans >= load.
C4_Capacity ==
    \A i \in I : SitesOf(i) # {} =>
        /\ calculate_resource_mix(Load(i), i) # None
        /\ resources[i].robot + resources[i].human <= data.CAP_i[i]
        /\ data.E_k.Robot[1] * data.E_k.Human[2] * resources[i].robot
             + data.E_k.Human[1] * data.E_k.Robot[2] * resources[i].human
           >= Load(i) * data.E_k.Robot[2] * data.E_k.Human[2]

C4_Witness == pc = "ls" /\ \E i \in I : Cardinality(SitesOf(i)) >= 2

\* C5: once the greedy has finished, y[i] = 1 iff some site is assigned to i, and
\* resources[i] is calculate_resource_mix of the demand assigned to i ((0,0) for
\* a facility without sites).
C5_DerivedState ==
    pc # "greedy" =>
        \A i \in I :
            /\ (y[i] = 1 <=> SitesOf(i) # {})
            /\ calculate_resource_mix(Load(i), i) # None
            /\ resources[i] = [robot |-> calculate_resource_mix(Load(i), i)[1],
                               human |-> calculate_resource_mix(Load(i), i)[2]]
            /\ (SitesOf(i) = {} => resources[i] = [robot |-> 0, human |-> 0])

C5_Witness ==
    /\ JustCommitted("drop")
    /\ \E i \in I : y[i] = 0 /\ obs.entry[2][i] = 1

\* C6: every open facility with positive resource counts has
\* human >= ceil(alpha * robot).
C6_Supervision ==
    \A i \in I :
        (y[i] = 1 /\ resources[i].robot + resources[i].human > 0) =>
            resources[i].human * data.alpha[2] >= data.alpha[1] * resources[i].robot

C6_Witness ==
    \E i \in I : y[i] = 1 /\ resources[i].robot > data.alpha[2] /\ resources[i].human >= 2

\* C7: whenever local_search returns a finite cost, the final (assignment, y,
\* resources) satisfies every constraint of the exact model, the returned cost is
\* that point's objective value, and it is at least the exact optimum.
C7_LowerBound ==
    (pc = "done" /\ run = 1 /\ Finite(ret)) =>
        LET zr == [i \in I |-> resources[i].robot]
            zh == [i \in I |-> resources[i].human]
        IN  /\ ExactFeasible(assignment, y, zr, zh)
            /\ ret = ExactObjective(y, zr, zh)
            /\ Finite(ExactOptimum)
            /\ ret >= ExactOptimum

C7_Witness == pc = "done" /\ run = 1 /\ Finite(ret) /\ Finite(ExactOptimum) /\ ret > ExactOptimum

SecondCallDone == pc = "done" /\ run >= 2
SameAsFirstCall ==
    /\ obs.moves = 0
    /\ <<assignment, y, resources>> = obs.entry
    /\ ret = obs.prevRet

\* C8 as stated: a further local_search call on the state a call left commits
\* nothing, leaves assignment, y and resources unchanged and returns the same cost.
C8_Idempotent == SecondCallDone => SameAsFirstCall

\* C8 amended: the same, when the previous call ended with an outer iteration
\* that committed nothing or max_iterations = 0 (it did not stop on the
\* iteration cap right after a commit).
C8_IdempotentAfterConvergence ==
    (SecondCallDone /\ (obs.prevStop = "noimprove" \/ data.max_iterations = 0)) =>
        SameAsFirstCall

C8_Witness ==
    SecondCallDone /\ obs.prevStop = "noimprove" /\ obs.prevMoves >= 1 /\ iteration = 1

\* C9: every local_search call terminates; it returns either after the first
\* outer iteration that committed nothing or after max_iterations iterations;
\* an iteration commits at most one move, so commits <= iterations <= max_iterations.
C9_Bounded ==
    /\ iteration <= data.max_iterations
    /\ obs.moves <= iteration
    /\ pc = "done" =>
         \/ ~improving /\ iteration >= 1 /\ obs.moves = iteration - 1
         \/ improving /\ iteration = data.max_iterations /\ obs.moves = iteration

C9_Termination == []C9_Bounded /\ ((pc = "head") ~> (pc = "done"))

C9_Witness ==
    pc = "done" /\ improving /\ iteration = data.max_iterations /\ obs.moves >= 1

\* C10: an outer iteration starts with Shift; Swap is tried only right after a
\* Shift that committed nothing, Drop only after such a Swap, Open only after
\* such a Drop; an operator that commits ends the iteration and the next one
\* starts with Shift again.
NoCommitStep == ~improving' /\ assignment' = assignment /\ iteration' = iteration

C10_Step ==
    /\ (pc' = "shift" => pc = "head" /\ iteration' = iteration + 1)
    /\ (pc' = "swap" => pc = "shift" /\ NoCommitStep)
    /\ (pc' = "drop" => pc = "swap" /\ NoCommitStep)
    /\ (pc' = "open" => pc = "drop" /\ NoCommitStep)
    /\ (pc \in MovePcs /\ improving' => pc' = "head")
    /\ (pc = "head" => pc' \in {"shift", "done"})

C10_PriorityOrder == [][C10_Step]_vars

C10_Witness == pc = "open" /\ iteration >= 2 /\ obs.moves >= 1

\* C11: a move operator that returns False leaves assignment, y and resources
\* exactly as they were before the call.
C11_Step ==
    (pc \in MovePcs /\ ~improving') =>
        /\ assignment' = assignment
        /\ y' = y
        /\ resources' = resources

C11_RevertFrame == [][C11_Step]_vars

\* Drop has just returned False after it moved a site of a facility and then
\* found no alternative for a later site of the same facility
C11_Witness ==
    /\ pc = "open"
    /\ \E p \in 1..Len(open_facilities(assignment, y)) :
          LET of == open_facilities(assignment, y)
              r == RedistLoop(assignment, of, of[p],
                              _get_facility_sites(assignment, of[p]), 1)
          IN  ~r.ok /\ r.asg # assignment

\* C12: a site further than S_max from every facility is unassigned after the
\* greedy and stays so; no local-search move is committed and local_search
\* returns the infinite sentinel.
Stranded(j) == \A i \in I : data.d_ij[i][j] > data.S_max

C12_NoEligibleFacility ==
    \A j \in J : Stranded(j) =>
        /\ assignment[j] = Unassigned
        /\ obs.moves = 0
        /\ (pc = "done" => ret = Inf)

C12_Witness ==
    /\ pc = "done" /\ iteration >= 1 /\ ret = Inf
    /\ \E j \in J : Stranded(j)
    /\ \E j \in J : assignment[j] # Unassigned

\* C13: calculate_total_cost returns the infinite sentinel iff some site is
\* unassigned or some facility with positive assigned demand has no feasible
\* sizing; otherwise it returns the sum, over the facilities with positive
\* assigned demand, of F_i + O_i + robots*C_robot + humans*C_human for the pair
\* calculate_resource_mix gives for that demand.
RECURSIVE SumDemand(_)
SumDemand(S) ==
    IF S = {} THEN 0
    ELSE LET j == CHOOSE k \in S : TRUE IN data.D_j[j] + SumDemand(S \ {j})

C13_CostFormula ==
    pc = "costed" =>
        LET asg == obs.asg
            load == [i \in I |-> SumDemand({j \in J : asg[j] = i})]
            mix == [i \in I |-> calculate_resource_mix(load[i], i)]
            infeasible == \/ \E j \in J : asg[j] = Unassigned
                          \/ \E i \in I : load[i] > 0 /\ mix[i] = None
            charge == [i \in I |->
                         IF load[i] > 0
                         THEN data.F_i[i] + data.O_i[i]
                              + mix[i][1] * data.C_k.Robot + mix[i][2] * data.C_k.Human
                         ELSE 0]
        IN  /\ (obs.cost = Inf) <=> infeasible
            /\ ~infeasible => obs.cost = SumOver(charge, 0)

C13_Witness ==
    /\ pc = "costed" /\ obs.cost # Inf
    /\ \E i \in I : \A j \in J : obs.asg[j] # i
    /\ \E i \in I : Cardinality({j \in J : obs.asg[j] = i}) >= 2

\* C14: calculate_resource_mix(total_demand, i) is (0, 0) for total_demand <= 0;
\* otherwise robots = ceil(total_demand / (E_robot + alpha*E_human)) and
\* humans = ceil(alpha*robots); if robots + humans < ceil(U_min*CAP_i), robots
\* grows by the shortfall and humans = ceil(alpha*robots) again; the result is
\* None iff the final robots + humans > CAP_i.
\* the least integer n with n >= num/den, for num >= 0 and den >= 1
Ceiling(num, den) == CHOOSE n \in 0..num : (n - 1) * den < num /\ num <= n * den

\* E_robot + alpha*E_human as the quotient EffNum / EffDen
EffNum ==
    data.E_k.Robot[1] * data.alpha[2] * data.E_k.Human[2]
      + data.alpha[1] * data.E_k.Human[1] * data.E_k.Robot[2]
EffDen == data.E_k.Robot[2] * data.alpha[2] * data.E_k.Human[2]

C14_ClosedForm ==
    pc = "sized" =>
        LET d == obs.total_demand
            cap == data.CAP_i[obs.facility_idx]
            r0 == Ceiling(d * EffDen, EffNum)
            h0 == Ceiling(data.alpha[1] * r0, data.alpha[2])
            m == Ceiling(data.U_min[1] * cap, data.U_min[2])
            r == IF r0 + h0 < m THEN r0 + (m - (r0 + h0)) ELSE r0
            h == IF r0 + h0 < m THEN Ceiling(data.alpha[1] * r, data.alpha[2]) ELSE h0
        IN  IF d <= 0 THEN obs.res = <<0, 0>>
            ELSE /\ (obs.res = None) <=> (r + h > cap)
                 /\ obs.res # None => obs.res = <<r, h>>

\* a call where the correction fired: one robot fewer would still cover the demand
C14_Witness ==
    /\ pc = "sized" /\ obs.total_demand > 0 /\ obs.res # None
    /\ (obs.res[1] - 1) * EffNum >= obs.total_demand * EffDen

\* C15: a pair calculate_resource_mix returns for a positive demand covers the
\* demand (E_robot*robots + E_human*humans >= total_demand), has
\* humans >= alpha*robots, and ceil(U_min*CAP_i) <= robots + humans <= CAP_i.
C15_PairFeasible ==
    (pc = "sized" /\ obs.total_demand > 0 /\ obs.res # None) =>
        LET robots == obs.res[1]
            humans == obs.res[2]
            cap == data.CAP_i[obs.facility_idx]
        IN  /\ data.E_k.Robot[1] * data.E_k.Human[2] * robots
                 + data.E_k.Human[1] * data.E_k.Robot[2] * humans
               >= obs.total_demand * data.E_k.Robot[2] * data.E_k.Human[2]
            /\ humans * data.alpha[2] >= data.alpha[1] * robots
            /\ robots + humans >= Ceiling(data.U_min[1] * cap, data.U_min[2])
            /\ robots + humans <= cap

\* capacity 100, demand 60: 19 robots and 4 humans are corrected to 26 and 6
C15_Witness ==
    /\ pc = "sized" /\ obs.total_demand = 60
    /\ data.CAP_i[obs.facility_idx] = 100
    /\ obs.res = <<26, 6>>

\* C16: when calculate_resource_mix returns a pair, no integer pair (R, H) with
\* E_robot*R + E_human*H >= demand, H >= alpha*R and
\* ceil(U_min*CAP_i) <= R + H <= CAP_i costs strictly less.
C16_MinimumCost ==
    (pc = "sized" /\ obs.res # None) =>
        LET cap == data.CAP_i[obs.facility_idx]
            cost(R, H) == data.C_k.Robot * R + data.C_k.Human * H
            feasible(R, H) ==
                /\ data.E_k.Robot[1] * data.E_k.Human[2] * R
                     + data.E_k.Human[1] * data.E_k.Robot[2] * H
                   >= obs.total_demand * data.E_k.Robot[2] * data.E_k.Human[2]
                /\ H * data.alpha[2] >= data.alpha[1] * R
                /\ R + H >= Ceiling(data.U_min[1] * cap, data.U_min[2])
                /\ R + H <= cap
        IN  \A R \in 0..cap, H \in 0..cap :
                feasible(R, H) => cost(R, H) >= cost(obs.res[1], obs.res[2])

\* C17: the facility the greedy commits for site j is, among the facilities
\* within S_max of j whose sizing of (current demand + D_j) is feasible, one
\* that minimises the marginal cost: resource cost at current demand + D_j
\* minus resource cost at the current demand, plus F_i + O_i if the facility
\* is not yet open.
C17_Step ==
    LET j == sorted_J[gi]
        staffing(d, i) ==
            calculate_resource_mix(d, i)[1] * data.C_k.Robot
              + calculate_resource_mix(d, i)[2] * data.C_k.Human
        candidates == { i \in I : /\ data.d_ij[i][j] <= data.S_max
                                  /\ calculate_resource_mix(Load(i) + data.D_j[j], i) # None }
        marginal(i) == staffing(Load(i) + data.D_j[j], i) - staffing(Load(i), i)
                       + (IF y[i] = 0 THEN data.F_i[i] + data.O_i[i] ELSE 0)
    IN  (pc = "greedy" /\ assignment'[j] # Unassigned) =>
            /\ assignment'[j] \in candidates
            /\ \A i \in candidates : marginal(assignment'[j]) <= marginal(i)

C17_MinimumMarginalCost == [][C17_Step]_vars

\* C18: the greedy handles every site exactly once, a site with larger demand
\* before a site with smaller demand, in an order fixed by the demands alone
\* (of two sites with equal demand, the one with the larger index first); each
\* pass of its loop touches the assignment of the site whose turn it is and
\* no other.
C18_Step ==
    pc = "greedy" =>
        /\ Len(sorted_J) = data.num_J
        /\ {sorted_J[k] : k \in 1..Len(sorted_J)} = J
        /\ \A k, l \in 1..Len(sorted_J) :
              k < l => \/ data.D_j[sorted_J[k]] > data.D_j[sorted_J[l]]
                       \/ /\ data.D_j[sorted_J[k]] = data.D_j[sorted_J[l]]
                          /\ sorted_J[k] > sorted_J[l]
        /\ gi' = gi + 1
        /\ (pc' = "ls") <=> (gi = data.num_J)
        /\ \A j \in J \ {sorted_J[gi]} : assignment'[j] = assignment[j]

C18_GreedyOrder == [][C18_Step]_vars

\* the first site handled is not site 0, and it was assigned
C18_Witness ==
    /\ pc = "greedy" /\ gi = 2
    /\ data.D_j[sorted_J[1]] > data.D_j[0]
    /\ assignment[sorted_J[1]] # Unassigned

\* C19: when the greedy handles site j, it assigns j iff some facility within
\* S_max of j has a feasible sizing of (its current demand + D_j), and then to
\* such a facility; otherwise j stays unassigned, and a greedy output with an
\* unassigned site has the infinite total cost.
C19_Step ==
    pc = "greedy" =>
        LET j == sorted_J[gi]
            usable == { i \in I : /\ data.d_ij[i][j] <= data.S_max
                                  /\ calculate_resource_mix(Load(i) + data.D_j[j], i) # None }
        IN  /\ (assignment'[j] # Unassigned) <=> (usable # {})
            /\ assignment'[j] # Unassigned => assignment'[j] \in usable
            /\ (pc' = "ls" /\ \E k \in J : assignment'[k] = Unassigned) => Cost' = Inf

C19_UnassignedIffNoCandidate == [][C19_Step]_vars

\* the greedy has ended with a site unassigned that is within S_max of a facility
C19_Witness ==
    /\ pc = "ls" /\ run = 0 /\ Cost = Inf
    /\ \E j \in J : /\ assignment[j] = Unassigned
                     /\ \E i \in I : data.d_ij[i][j] <= data.S_max

\* C20: if the instance has a complete assignment within S_max for which every
\* loaded facility has a feasible sizing, the state constructive_greedy leaves
\* has every site assigned and a finite total cost.
C20_GreedyFeasible ==
    (/\ pc = "ls" /\ run = 0
     /\ \E asg \in [J -> I] :
           /\ \A j \in J : data.d_ij[asg[j]][j] <= data.S_max
           /\ \A i \in I : calculate_resource_mix(_get_facility_demand(asg, i), i) # None)
    => (AllAssigned /\ Finite(Cost))

\* C21: greedy followed by local search on a small instance.
\* the assignments of every site to an SLA-eligible facility, and the minimum
\* of calculate_total_cost over them (Inf when none has a finite cost)
EligibleAssignments ==
    { asg \in [J -> I] : \A j \in J : data.d_ij[asg[j]][j] <= data.S_max }

EligibleCosts == { calculate_total_cost(asg) : asg \in EligibleAssignments } \ {Inf}

HeuristicOptimum == IF EligibleCosts = {} THEN Inf ELSE SetMin(EligibleCosts)

\* C21 as stated: when the first local_search call after constructive_greedy
\* stops because a pass committed nothing, the cost it returns is the minimum
\* of calculate_total_cost over the SLA-eligible assignments.
C21_ReachesOptimum ==
    (pc = "done" /\ run = 1 /\ obs.stop = "noimprove") => ret = HeuristicOptimum

\* C21 amended: the cost greedy followed by local_search returns is never below
\* the minimum of calculate_total_cost over the SLA-eligible assignments, and a
\* finite returned cost is the cost of the final assignment, which is one of
\* them; the minimum itself is not always reached.
C21_BoundedByOptimum ==
    (pc = "done" /\ run = 1) =>
        /\ ~StrictlyLower(ret, HeuristicOptimum)
        /\ Finite(ret) => (assignment \in EligibleAssignments /\ ret = Cost)

\* the search stopped on a pass without a commit, every site assigned, at a
\* cost above the minimum
C21_Witness ==
    /\ pc = "done" /\ run = 1 /\ obs.stop = "noimprove"
    /\ Finite(ret) /\ Finite(HeuristicOptimum)
    /\ ret > HeuristicOptimum

\* the facilities with y = 1 in yy
OpenSet(yy) == {i \in I : yy[i] = 1}

\* C22: a committed Drop closes exactly one facility and opens none: the
\* dropped facility was open and held sites, afterwards it holds none and has
\* y = 0 and resources (0,0); every site it held is on a facility that was open
\* before the move; no other site's assignment changed; one facility fewer is open.
C22_Step ==
    (pc = "drop" /\ pc' = "head") =>
        \E drop_i \in I :
            /\ y[drop_i] = 1
            /\ SitesOf(drop_i) # {}
            /\ \A j \in J : assignment'[j] # drop_i
            /\ y'[drop_i] = 0
            /\ resources'[drop_i] = [robot |-> 0, human |-> 0]
            /\ \A j \in SitesOf(drop_i) : assignment'[j] \in I /\ y[assignment'[j]] = 1
            /\ \A j \in J \ SitesOf(drop_i) : assignment'[j] = assignment[j]
            /\ OpenSet(y') \subseteq OpenSet(y)
            /\ Cardinality(OpenSet(y')) = Cardinality(OpenSet(y)) - 1

C22_DropClosesOne == [][C22_Step]_vars

\* a Drop has just committed and left one facility open with every site on it
C22_Witness ==
    /\ JustCommitted("drop")
    /\ Cardinality(OpenSet(y)) = NumI - 1
    /\ \A j \in J : assignment[j] \in OpenSet(y)

\* facility e comes before facility d in ascending order of assigned demand,
\* ties by ascending index
DropBefore(e, d) == Load(e) < Load(d) \/ (Load(e) = Load(d) /\ e < d)

\* the sites of open facility e can all be redistributed to other open
\* facilities within SLA and capacity (each to the one Drop picks for it) and
\* the resulting total cost is strictly lower
DropQualifies(e) ==
    LET r == RedistLoop(assignment, open_facilities(assignment, y), e,
                        _get_facility_sites(assignment, e), 1)
    IN  r.ok /\ StrictlyLower(calculate_total_cost(r.asg), Cost)

\* C23: Drop tries the open facilities in ascending order of assigned demand,
\* ties by ascending index: the facility a committed Drop closes qualifies (its
\* sites can all be redistributed at a strictly lower total cost) and no open
\* facility with sites that comes earlier in that order qualifies.
C23_Step ==
    (pc = "drop" /\ pc' = "head") =>
        \E d \in OpenSet(y) :
            /\ SitesOf(d) # {}
            /\ \A j \in J : assignment'[j] # d
            /\ DropQualifies(d)
            /\ \A e \in OpenSet(y) :
                 (SitesOf(e) # {} /\ DropBefore(e, d)) => ~DropQualifies(e)

C23_DropOrder == [][C23_Step]_vars

\* Drop is about to run where two facilities qualify and the one with the
\* higher index has the lower demand
C23_Witness ==
    /\ pc = "drop"
    /\ \E e, d \in OpenSet(y) :
         /\ e < d /\ Load(d) < Load(e)
         /\ DropQualifies(e) /\ DropQualifies(d)

\* the sites with a current facility that are within S_max of facility new_i
\* and strictly closer to it than to their current facility, and what they save
OpenCandidates(new_i) ==
    { j \in J : /\ assignment[j] \in I
                /\ data.d_ij[new_i][j] <= data.S_max
                /\ data.d_ij[new_i][j] < data.d_ij[assignment[j]][j] }

OpenSaving(new_i, j) == data.d_ij[assignment[j]][j] - data.d_ij[new_i][j]

\* C24: a committed Open relocates between 2 and 10 sites onto one facility
\* that was closed before the call: the sites it holds afterwards are exactly
\* the relocated ones, each was within S_max of it and strictly farther from
\* its previous facility, none of the candidates left behind saves more
\* distance than a relocated one (candidates are left behind only when 10 were
\* relocated), and no other site's assignment changed.
C24_Step ==
    (pc = "open" /\ improving') =>
        \E new_i \in I :
            LET held == {j \in J : assignment'[j] = new_i}
                moved == {j \in J : assignment'[j] # assignment[j]}
            IN  /\ y[new_i] = 0 /\ y'[new_i] = 1
                /\ held = moved
                /\ Cardinality(held) >= 2 /\ Cardinality(held) <= 10
                /\ held \subseteq OpenCandidates(new_i)
                /\ \A j \in held : \A k \in OpenCandidates(new_i) \ held :
                       OpenSaving(new_i, j) >= OpenSaving(new_i, k)
                /\ OpenCandidates(new_i) # held => Cardinality(held) = 10

C24_OpenRelocates == [][C24_Step]_vars

\* an Open has just committed with 10 sites on one facility, and a site with a
\* lower index than one of them stayed behind although it is within S_max of
\* that facility and closer to it than to its own
C24_Witness ==
    /\ JustCommitted("open")
    /\ \E new_i \in I :
         /\ Cardinality(SitesOf(new_i)) = 10
         /\ \E k \in J \ SitesOf(new_i) : \E j \in SitesOf(new_i) :
              /\ k < j
              /\ assignment[k] \in I
              /\ data.d_ij[new_i][k] <= data.S_max
              /\ data.d_ij[new_i][k] < data.d_ij[assignment[k]][k]

\* C25: Open only considers sites that have a current facility: whenever
\* _open_move is called, every site it ranks as a relocation candidate for a
\* closed facility is currently assigned to a facility (and is closer to the
\* closed one than to that facility); an unassigned site is never a candidate.
C25_OnlyAssignedCandidates ==
    pc = "open" =>
        \A new_i \in I : y[new_i] = 0 =>
            \A p \in DOMAIN site_savings(assignment, new_i) :
                LET j == site_savings(assignment, new_i)[p][1]
                IN  /\ assignment[j] \in I
                    /\ data.d_ij[new_i][j] < data.d_ij[assignment[j]][j]

\* reassigning site j to facility k strictly lowers the total cost
ShiftLowers(j, k) ==
    StrictlyLower(calculate_total_cost([assignment EXCEPT ![j] = k]), Cost)

\* facility k is another facility than the one of site j and within S_max of it
ShiftAdmissible(j, k) == k # assignment[j] /\ data.d_ij[k][j] <= data.S_max

\* C26: Shift is first-improvement in fixed enumeration order: a committed
\* Shift changes the assignment of exactly one site j, to a facility k other
\* than its previous one and within S_max, and (j, k) is the first pair in
\* ascending site index, then ascending facility index, whose reassignment
\* strictly lowers the total cost; the facility is open afterwards.
C26_Step ==
    (pc = "shift" /\ pc' = "head") =>
        \E j \in J, k \in I :
            /\ assignment' = [assignment EXCEPT ![j] = k]
            /\ ShiftAdmissible(j, k)
            /\ ShiftLowers(j, k)
            /\ \A j2 \in J, k2 \in I :
                 (ShiftAdmissible(j2, k2) /\ (j2 < j \/ (j2 = j /\ k2 < k)))
                     => ~ShiftLowers(j2, k2)
            /\ y'[k] = 1

C26_FirstImprovement == [][C26_Step]_vars

\* Shift is about to commit a move onto a facility that is closed, although a
\* later pair would lower the cost too
C26_Witness ==
    /\ pc = "shift"
    /\ _shift_move(assignment).found
    /\ \E j \in J :
         /\ _shift_move(assignment).asg[j] # assignment[j]
         /\ y[_shift_move(assignment).asg[j]] = 0
         /\ \E j2 \in J, k2 \in I :
              /\ j2 > j
              /\ ShiftAdmissible(j2, k2) /\ ShiftLowers(j2, k2)

\* sites j1 < j2 sit on different facilities and each is within S_max of the
\* facility of the other
SwapAdmissible(j1, j2) ==
    /\ j1 < j2
    /\ assignment[j1] \in I /\ assignment[j2] \in I
    /\ assignment[j1] # assignment[j2]
    /\ data.d_ij[assignment[j2]][j1] <= data.S_max
    /\ data.d_ij[assignment[j1]][j2] <= data.S_max

\* exchanging the facilities of sites j1 and j2 strictly lowers the total cost
SwapLowers(j1, j2) ==
    StrictlyLower(calculate_total_cost([assignment EXCEPT ![j1] = assignment[j2],
                                                          ![j2] = assignment[j1]]),
                  Cost)

\* C27: when local_search has stopped because a pass of the loop committed
\* nothing (not because of the iteration cap), no reassignment of one site to
\* another facility within S_max and no exchange of two sites on different
\* facilities, each within S_max of the other's facility, has a strictly lower
\* total cost than the final assignment.
C27_LocalOptimum ==
    (pc = "done" /\ obs.stop = "noimprove") =>
        /\ \A j \in J, k \in I : ShiftAdmissible(j, k) => ~ShiftLowers(j, k)
        /\ \A j1 \in J, j2 \in J : SwapAdmissible(j1, j2) => ~SwapLowers(j1, j2)

\* the search stopped on a pass without a commit after at least one commit, with
\* a finite cost, and the final assignment has both an admissible reassignment
\* and an admissible exchange to compare with
C27_Witness ==
    /\ pc = "done" /\ obs.stop = "noimprove" /\ obs.moves >= 1
    /\ Finite(ret)
    /\ \E j \in J, k \in I : ShiftAdmissible(j, k)
    /\ \E j1 \in J, j2 \in J : SwapAdmissible(j1, j2)

\* C28: the greedy construction never backtracks: a step of its loop leaves
\* every site that already has a facility on that facility, lowers the assigned
\* demand of no facility, closes no open facility, and changes nothing but the
\* assignment of the site it processes and the open flag and resources of the
\* facility chosen for that site.
C28_Step ==
    (pc = "greedy") =>
        /\ \A j \in J : assignment[j] \in I => assignment'[j] = assignment[j]
        /\ \A j \in J : j # sorted_J[gi] => assignment'[j] = assignment[j]
        /\ \A i \in I : _get_facility_demand(assignment', i) >= Load(i)
        /\ \A i \in I : y[i] = 1 => y'[i] = 1
        /\ \A i \in I : i # assignment'[sorted_J[gi]]
                          => y'[i] = y[i] /\ resources'[i] = resources[i]

C28_GreedyNoBacktrack == [][C28_Step]_vars

\* the construction has just ended with every site assigned, two facilities
\* open and one of them holding several sites
C28_Witness ==
    /\ pc = "ls" /\ run = 0
    /\ AllAssigned
    /\ Cardinality(OpenSet(y)) >= 2
    /\ \E i \in I : Cardinality(SitesOf(i)) >= 2

\* the cost of the stored facility state: fixed and operating cost and the cost
\* of the stored resources of every facility marked open
StoredCost ==
    SumOver([i \in I |-> IF y[i] = 1
                         THEN data.F_i[i] + data.O_i[i]
                              + resources[i].robot * data.C_k.Robot
                              + resources[i].human * data.C_k.Human
                         ELSE 0], 0)

\* C29: whenever the cost local_search returns is finite, it equals the sum,
\* over the facilities with y[i] = 1, of F_i + O_i and the cost of the stored
\* robots and humans of the facility.
C29_CostAgreesWithState == (pc = "done" /\ Finite(ret)) => ret = StoredCost

\* a call has returned a finite cost after commits that closed a facility open
\* at its entry and changed the resources of a facility that is open
C29_Witness ==
    /\ pc = "done" /\ Finite(ret) /\ obs.moves >= 1
    /\ \E i \in I : obs.entry[2][i] = 1 /\ y[i] = 0
    /\ \E i \in I : y[i] = 1 /\ resources[i] # obs.entry[3][i]

\* C30: resource sizing is monotone in demand: when calculate_resource_mix
\* returns a pair for a demand and for a smaller positive demand at the same
\* facility, neither the resource cost nor the head count of the pair for the
\* larger demand is below that of the pair for the smaller one.
C30_SizingMonotone ==
    (pc = "sized" /\ obs.res # None) =>
        \A d1 \in 1..obs.total_demand :
            LET res1 == calculate_resource_mix(d1, obs.facility_idx)
            IN  res1 # None =>
                  /\ ResourceCost(res1) <= ResourceCost(obs.res)
                  /\ res1[1] + res1[2] <= obs.res[1] + obs.res[2]

====
